---- MODULE Spec2Model ----
(***************************************************************************)
(* Anomaly Detection Ensemble Engine of UIDAI_Analytics.                   *)
(*                                                                         *)
(* Modelled from src/anomaly_detection.py (its near-duplicate is           *)
(* src/uidai_analytics/analytics/services/anomaly.py) and                  *)
(* src/uidai_analytics/analytics/tasks.py.                                 *)
(*                                                                         *)
(* Numbers.  The metric is a sum of three integer columns, so every value  *)
(* of a series is an integer.  Means, quantiles and ratios are kept as     *)
(* exact fractions (a numerator and the denominator it is over), and every *)
(* comparison the code makes on floats is made on the fractions by cross   *)
(* multiplication.  A z-score is kept as its square, num/den.  Severity    *)
(* scores are kept in hundredths (round(x, 2) * 100).                       *)
(*                                                                         *)
(* Floating point.  The code computes the z-score in binary64.  The only   *)
(* comparison of the model's series that the rounding can decide is a      *)
(* z-score that is exactly the threshold: the computed quotient is then    *)
(* the threshold itself, one ulp below it, or one ulp above it (nine 1s    *)
(* followed by 100 give 3.0000000000000004).  Which of them it is depends  *)
(* on the data; fp_up tells whether it is the one above.                   *)
(***************************************************************************)
EXTENDS Integers, Sequences, FiniteSets, TLC

(***************************************************************************)
(* Program constants                                                       *)
(***************************************************************************)
ZThreshold == 3
ZMinLen == 3
IqrMinLen == 5
Window == 30
MinMethods == 2
DefaultSeverity == 5
SeverityCap == 10

(***************************************************************************)
(* Bounds of the model                                                     *)
(***************************************************************************)
\* longest series of the short family (the rolling detector needs Window+1)
MaxLen == 32
\* length of the longest series family (a z-score above 10 needs 102 points)
LongLen == 102
\* magnitude of an ordinary outlier
OutMag == 4
\* magnitude of an extreme outlier
BigMag == 100
\* a days argument small enough for the LIMIT to cut the longer series
ShortDays == 1

(***************************************************************************)
(* Arithmetic helpers                                                      *)
(***************************************************************************)
Abs(x) == IF x < 0 THEN -x ELSE x

RECURSIVE SumRange(_, _, _)
\* sum of vals[lo..hi], added up by halves
SumRange(vals, lo, hi) ==
  IF lo > hi THEN 0
  ELSE IF lo = hi THEN vals[lo]
  ELSE LET mid == (lo + hi) \div 2
       IN SumRange(vals, lo, mid) + SumRange(vals, mid + 1, hi)

RECURSIVE ISqrtIn(_, _, _)
\* largest k in lo..hi with k*k <= x (lo*lo <= x is given)
ISqrtIn(x, lo, hi) ==
  IF lo >= hi THEN lo
  ELSE LET mid == (lo + hi + 1) \div 2
       IN IF mid * mid <= x THEN ISqrtIn(x, mid, hi)
          ELSE ISqrtIn(x, lo, mid - 1)

\* floor(num * m / den) by long division, one factor of m at a time, so that
\* no intermediate product leaves the machine integers of the checker
MulDivStep(qr, m, den) ==
  [q |-> qr.q * m + (qr.r * m) \div den, r |-> (qr.r * m) % den]

FloorScaled(num, den) ==
  \* floor(num * 40000 / den)
  LET s0 == [q |-> num \div den, r |-> num % den]
      s1 == MulDivStep(s0, 4, den)
      s2 == MulDivStep(s1, 10, den)
      s3 == MulDivStep(s2, 10, den)
      s4 == MulDivStep(s3, 10, den)
      s5 == MulDivStep(s4, 10, den)
  IN s5.q

\* variant of FracGreaterSq: the squared score against the threshold itself
FracGreaterSq_Linear(num, den, t) ==
  \/ num \div den > t
  \/ (num \div den = t /\ num % den > 0)

\* variant of FracGreaterSq: z >= threshold instead of z > threshold
FracGreaterSq_NotStrict(num, den, t) ==
  num \div den >= t * t

\* num/den > t*t, for num >= 0, den > 0
FracGreaterSq(num, den, t) ==
  \/ num \div den > t * t
  \/ (num \div den = t * t /\ num % den > 0)

(***************************************************************************)
(* A series: a sequence of rows [date, value] in ascending date order, as  *)
(* get_time_series_data returns it (df.sort_values('date'), date as index).*)
(* A date is a day number, day 0 being 2024-01-01.                         *)
(***************************************************************************)
Values(data_series) == [i \in 1..Len(data_series) |-> data_series[i].value]

Squares(data_series) ==
  [i \in 1..Len(data_series) |-> data_series[i].value * data_series[i].value]

\* the positions, in order, at which the sequence of booleans is TRUE
Positions(flags) ==
  SelectSeq([i \in 1..Len(flags) |-> i], LAMBDA i : flags[i])

\* the label `date` occurs once in the index
UniqueLabel(data_series, date) ==
  Cardinality({i \in 1..Len(data_series) : data_series[i].date = date}) = 1

(***************************************************************************)
(* Timestamp.strftime('%Y-%m-%d'): the day number as <<year, month, day>>  *)
(* (the components of the string, whose order is the order of the strings).*)
(***************************************************************************)
MonthDays == <<31, 29, 31, 30, 31, 30, 31, 31, 30, 31, 30, 31>>

RECURSIVE DayInYear(_, _)
\* day d (0-based) of the year, counted from month m
DayInYear(d, m) ==
  IF d < MonthDays[m] THEN <<m, d + 1>> ELSE DayInYear(d - MonthDays[m], m + 1)

strftime(date) ==
  LET md == DayInYear(date, 1) IN <<2024, md[1], md[2]>>

VARIABLE
  fp_up        \* an exactly-threshold z-score is computed one ulp above it

(***************************************************************************)
(* z_score_anomalies(data_series, threshold=3)                             *)
(*   z = np.abs(stats.zscore(data_series)); flag z > threshold.            *)
(* stats.zscore is (x - mean) / std with the population std, so with S the *)
(* sum and Q the sum of squares of the n values                            *)
(*   z_i^2 = (n*x_i - S)^2 / (n*Q - S^2).                                  *)
(* A zero std gives 0/0 = NaN, and NaN > threshold is False.               *)
(***************************************************************************)
\* variant of z_score_anomalies: a zero standard deviation makes every
\* z-score infinite instead of NaN
z_score_anomalies_ZeroStdInf(data_series, threshold) ==
  LET n == Len(data_series)
      S == SumRange(Values(data_series), 1, n)
      D == n * SumRange(Squares(data_series), 1, n) - S * S
      dev(i) == n * data_series[i].value - S
      tie(i) == dev(i) * dev(i) = threshold * threshold * D
      flagged(i) ==
        \/ D = 0
        \/ FracGreaterSq(dev(i) * dev(i), D, threshold)
        \/ (fp_up /\ tie(i))
      hits == Positions([i \in 1..Len(data_series) |-> flagged(i)])
  IN IF n < ZMinLen THEN <<>>
     ELSE [k \in 1..Len(hits) |->
             [date |-> data_series[hits[k]].date,
              value |-> data_series[hits[k]].value,
              z_score |-> [num |-> dev(hits[k]) * dev(hits[k]), den |-> D],
              method |-> "z_score"]]

z_score_anomalies(data_series, threshold) ==
  LET n == Len(data_series)
      S == SumRange(Values(data_series), 1, n)
      D == n * SumRange(Squares(data_series), 1, n) - S * S
      dev(i) == n * data_series[i].value - S
      tie(i) == dev(i) * dev(i) = threshold * threshold * D
      flagged(i) ==
        /\ D > 0
        /\ \/ FracGreaterSq(dev(i) * dev(i), D, threshold)
           \/ (fp_up /\ tie(i))
      hits == Positions([i \in 1..Len(data_series) |-> flagged(i)])
  IN IF n < ZMinLen THEN <<>>
     ELSE [k \in 1..Len(hits) |->
             [date |-> data_series[hits[k]].date,
              value |-> data_series[hits[k]].value,
              z_score |-> [num |-> dev(hits[k]) * dev(hits[k]), den |-> D],
              method |-> "z_score"]]

(***************************************************************************)
(* iqr_outliers(data_series)                                               *)
(* Series.quantile(q) interpolates linearly at position (n-1)*q of the     *)
(* sorted values.  Quantile4 is 4 * quantile(q4/4); the bounds are kept    *)
(* times 8:  8*(Q1 - 1.5*IQR) = 2*(4*Q1) - 3*(4*IQR).                      *)
(***************************************************************************)
KthSmallest(vals, k) ==
  CHOOSE v \in {vals[i] : i \in 1..Len(vals)} :
    /\ Cardinality({i \in 1..Len(vals) : vals[i] < v}) < k
    /\ k <= Cardinality({i \in 1..Len(vals) : vals[i] <= v})

\* variant of Quantile4: the lower neighbour, without interpolation
Quantile4_Lower(vals, q4) ==
  4 * KthSmallest(vals, ((Len(vals) - 1) * q4) \div 4 + 1)

Quantile4(vals, q4) ==
  LET pos4 == (Len(vals) - 1) * q4
      k == pos4 \div 4
      r == pos4 % 4
      lo == KthSmallest(vals, k + 1)
      hi == IF r = 0 THEN lo ELSE KthSmallest(vals, k + 2)
  IN 4 * lo + r * (hi - lo)

\* variant of iqr_outliers: the minimum length is 4 instead of 5
iqr_outliers_MinLen4(data_series) ==
  LET vals == Values(data_series)
      Q1 == Quantile4(vals, 1)
      Q3 == Quantile4(vals, 3)
      IQR == Q3 - Q1
      lower_bound == 2 * Q1 - 3 * IQR
      upper_bound == 2 * Q3 + 3 * IQR
      flagged(i) == 8 * vals[i] < lower_bound \/ 8 * vals[i] > upper_bound
      hits == Positions([i \in 1..Len(data_series) |-> flagged(i)])
  IN IF Len(data_series) < IqrMinLen - 1 THEN <<>>
     ELSE [k \in 1..Len(hits) |->
             [date |-> data_series[hits[k]].date,
              value |-> data_series[hits[k]].value,
              lower_bound |-> lower_bound,
              upper_bound |-> upper_bound,
              method |-> "iqr"]]

iqr_outliers(data_series) ==
  LET vals == Values(data_series)
      Q1 == Quantile4(vals, 1)
      Q3 == Quantile4(vals, 3)
      IQR == Q3 - Q1
      lower_bound == 2 * Q1 - 3 * IQR
      upper_bound == 2 * Q3 + 3 * IQR
      flagged(i) == 8 * vals[i] < lower_bound \/ 8 * vals[i] > upper_bound
      hits == Positions([i \in 1..Len(data_series) |-> flagged(i)])
  IN IF Len(data_series) < IqrMinLen THEN <<>>
     ELSE [k \in 1..Len(hits) |->
             [date |-> data_series[hits[k]].date,
              value |-> data_series[hits[k]].value,
              lower_bound |-> lower_bound,
              upper_bound |-> upper_bound,
              method |-> "iqr"]]

(***************************************************************************)
(* rolling_average_deviation(data_series, window=30)                       *)
(* rolling(window).mean() at position i is the mean of the window points   *)
(* ending at i, i included: RollingSum(i) / window.  The loop runs over    *)
(* the labels index[window:], i.e. the positions window+1 .. n (1-based),  *)
(* and reads deviation_pct.loc[date]: for a label that occurs more than    *)
(* once .loc returns a Series and `if dev > 0.5` raises ValueError.        *)
(* deviation_pct = |x - mean| / |mean|: a zero mean gives inf (flagged)    *)
(* for x # 0 and NaN (not flagged) for x = 0.                              *)
(***************************************************************************)
\* variant of RollingSum: the window points before i, i itself left out
\* (rolling(window).mean().shift(1))
RollingSum_Preceding(data_series, window, i) ==
  SumRange(Values(data_series), i - window, i - 1)

RollingSum(data_series, window, i) ==
  SumRange(Values(data_series), i - window + 1, i)

\* variant of RollingFlag: the deviation is taken without np.abs, so only
\* values above the rolling mean can be flagged
RollingFlag_NoAbs(data_series, window, i) ==
  LET w == RollingSum(data_series, window, i)
      a == window * data_series[i].value - w
  IN IF w = 0 THEN a > 0 ELSE 2 * a > Abs(w)

RollingFlag(data_series, window, i) ==
  LET w == RollingSum(data_series, window, i)
      a == Abs(window * data_series[i].value - w)
  IN IF w = 0 THEN a > 0 ELSE 2 * a > Abs(w)

rolling_average_deviation(data_series, window) ==
  LET n == Len(data_series)
      valid_indices == (window + 1)..n
      flagged(i) == i \in valid_indices /\ RollingFlag(data_series, window, i)
      hits == Positions([i \in 1..Len(data_series) |-> flagged(i)])
      ambiguous == \E i \in valid_indices :
                      ~UniqueLabel(data_series, data_series[i].date)
  IN IF n < window THEN [raised |-> FALSE, anomalies |-> <<>>]
     ELSE IF ambiguous THEN [raised |-> TRUE, anomalies |-> <<>>]
     ELSE [raised |-> FALSE,
           anomalies |->
             [k \in 1..Len(hits) |->
                [date |-> data_series[hits[k]].date,
                 value |-> data_series[hits[k]].value,
                 rolling_mean |->
                   [num |-> RollingSum(data_series, window, hits[k]),
                    den |-> window],
                 deviation_pct |->
                   [num |-> Abs(window * data_series[hits[k]].value
                                - RollingSum(data_series, window, hits[k])),
                    den |-> Abs(RollingSum(data_series, window, hits[k]))],
                 method |-> "rolling_deviation"]]]

(***************************************************************************)
(* get_time_series_data(state, district, days=90)                          *)
(* `rows` are the rows of the enrollments table that match the filter, in  *)
(* ascending date order.  ORDER BY date DESC LIMIT days+60 keeps the most  *)
(* recent days+60 of them; sort_values('date') puts them back in ascending *)
(* order.  Any exception of read_sql is caught and an empty DataFrame is   *)
(* returned: no rows and no columns.  A result of read_sql has the column  *)
(* daily_enrollments (date becomes the index) even when it has no rows.    *)
(* The copy of src/anomaly_detection.py uses the engine the module made    *)
(* when it was imported and never raises; the copy of services/anomaly.py  *)
(* calls get_engine() first, outside its try.                              *)
(***************************************************************************)
Days == 90
Lookback == 60

\* the columns of the SELECT, the index column left out
QueryColumns == {"daily_enrollments"}

LastN(rows, limit) ==
  IF Len(rows) <= limit THEN rows
  ELSE SubSeq(rows, Len(rows) - limit + 1, Len(rows))

\* variant of get_time_series_data: the exception of read_sql is not caught
get_time_series_data_NoCatch(rows, read_ok, days) ==
  [raised |-> ~read_ok,
   columns |-> IF read_ok THEN QueryColumns ELSE {},
   df |-> IF read_ok THEN LastN(rows, days + Lookback) ELSE <<>>]

\* variant of get_time_series_data: LIMIT days, without the extra lookback
get_time_series_data_NoLookback(rows, read_ok, days) ==
  [raised |-> FALSE,
   columns |-> IF read_ok THEN QueryColumns ELSE {},
   df |-> IF read_ok THEN LastN(rows, days) ELSE <<>>]

get_time_series_data(rows, read_ok, days) ==
  [raised |-> FALSE,
   columns |-> IF read_ok THEN QueryColumns ELSE {},
   df |-> IF read_ok THEN LastN(rows, days + Lookback) ELSE <<>>]

\* services/anomaly.py: line 7 raises when get_engine() does (engine_ok is
\* FALSE); lines 8-32 are the body of get_time_series_data above
get_time_series_data_sync(rows, engine_ok, read_ok, days) ==
  IF engine_ok THEN get_time_series_data(rows, read_ok, days)
  ELSE [raised |-> TRUE, columns |-> {}, df |-> <<>>]

(***************************************************************************)
(* comprehensive_anomaly_report(state, district, days=90)                  *)
(***************************************************************************)
\* variant of add_finding: a later finding for a date replaces the entry of
\* the date instead of joining it
add_finding_Overwrite(findings, entry) ==
  LET hit == {k \in 1..Len(findings) : findings[k].date = entry.date}
      fresh == [date |-> entry.date, value |-> entry.value,
                methods |-> <<entry.method>>,
                details |-> (entry.method :> entry)]
  IN IF hit = {} THEN Append(findings, fresh)
     ELSE [findings EXCEPT ![CHOOSE j \in hit : TRUE] = fresh]

\* add_finding(date_key, entry) on the dict `findings`, kept as the sequence
\* of its values in insertion order
add_finding(findings, entry) ==
  LET hit == {k \in 1..Len(findings) : findings[k].date = entry.date}
  IN IF hit = {}
     THEN Append(findings, [date |-> entry.date,
                            value |-> entry.value,
                            methods |-> <<entry.method>>,
                            details |-> (entry.method :> entry)])
     ELSE LET k == CHOOSE j \in hit : TRUE
          IN [findings EXCEPT ![k].methods = Append(@, entry.method),
                              ![k].details = (entry.method :> entry) @@ @]

RECURSIVE AddAll(_, _, _)
\* for a in entries[i..]: add_finding(a['date'], a)
AddAll(findings, entries, i) ==
  IF i > Len(entries) THEN findings
  ELSE AddAll(add_finding(findings, entries[i]), entries, i + 1)

\* variant of RoundedCappedZ: round(z, 2), without the cap
RoundedCappedZ_NoCap(z) ==
  (ISqrtIn(FloorScaled(z.num, z.den), 0, 20000) + 1) \div 2

\* round(min(10.0, z), 2) in hundredths, z given by its square num/den:
\* floor(200 z) is the integer square root of floor(40000 num/den), and
\* rounding to the nearest hundredth is (floor(200 z) + 1) div 2
RoundedCappedZ(z) ==
  IF z.num \div z.den >= SeverityCap * SeverityCap THEN SeverityCap * 100
  ELSE (ISqrtIn(FloorScaled(z.num, z.den), 0, 200 * SeverityCap) + 1) \div 2

\* variant of AnomalyType: always against the mean of the whole series
AnomalyType_SeriesMean(f, series) ==
  IF f.value * Len(series) < SumRange(Values(series), 1, Len(series))
  THEN "drop" ELSE "spike"

\* variant of AnomalyType: is_spike keeps its initial value
AnomalyType_AlwaysSpike(f, series) == "spike"

\* lines 164-176: 'spike' unless the value is below the reference mean
AnomalyType(f, series) ==
  LET val == f.value
      n == Len(series)
      is_spike ==
        IF "rolling_deviation" \in DOMAIN f.details
        THEN LET roll_mean == f.details["rolling_deviation"].rolling_mean
             IN ~(val * roll_mean.den < roll_mean.num)
        ELSE ~(val * n < SumRange(Values(series), 1, n))
  IN IF is_spike THEN "spike" ELSE "drop"

\* variant of SeverityScore: severity starts at 0.0 instead of 5.0
SeverityScore_NoDefault(f) ==
  IF "z_score" \in DOMAIN f.details
  THEN RoundedCappedZ(f.details["z_score"].z_score)
  ELSE 0

\* variant of SeverityScore: the default is never overridden
SeverityScore_Default(f) == DefaultSeverity * 100

\* lines 178-189: 5.0 unless the z-score detector fired
SeverityScore(f) ==
  IF "z_score" \in DOMAIN f.details
  THEN RoundedCappedZ(f.details["z_score"].z_score)
  ELSE DefaultSeverity * 100

\* variant of Validated: more than MinMethods entries are required
Validated_Strict(f) == Len(f.methods) > MinMethods

\* line 163: flagged by at least 2 methods
Validated(f) == Len(f.methods) >= MinMethods

MakeAlert(f, series, state, district) ==
  [date |-> strftime(f.date),
   metric_name |-> "daily_enrollments",
   anomaly_value |-> f.value,
   severity_score |-> SeverityScore(f),
   anomaly_type |-> AnomalyType(f, series),
   detection_methods |-> f.methods,
   district |-> district,
   state |-> state]

\* the dict `findings` after the three add_finding loops
Aggregate(z_anomalies, iqr_anoms, roll_anoms) ==
  AddAll(AddAll(AddAll(<<>>, z_anomalies, 1), iqr_anoms, 1), roll_anoms, 1)

\* The result of a call that did not get to a step
\* fetch: how the provider call of the report went ("ok", "query_error",
\* "engine_error"); days: the days argument; ran: the detectors were called
NoReport ==
  [status |-> "none", part |-> 0, fetch |-> "none", days |-> 0,
   ran |-> FALSE, df |-> <<>>, z_anomalies |-> <<>>,
   iqr_anoms |-> <<>>, roll_anoms |-> <<>>, alerts |-> <<>>]

\* variant of comprehensive_anomaly_report without the early return of line
\* 132: the detectors are called on whatever the provider returned
comprehensive_anomaly_report_NoEarlyReturn(fetched, state, district) ==
  [NoReport EXCEPT !.status = IF fetched.raised THEN "raised" ELSE "returned",
                   !.ran = ~fetched.raised, !.df = fetched.df]

\* fetched is what get_time_series_data did.  The result records the locals
\* df, z_anomalies, iqr_anoms, roll_anoms and the returned list (alerts);
\* status is "raised" when an exception leaves the function.
comprehensive_anomaly_report(fetched, state, district) ==
  LET df == fetched.df
      z_anomalies == z_score_anomalies(df, ZThreshold)
      iqr_anoms == iqr_outliers(df)
      roll == rolling_average_deviation(df, Window)
      validated ==
        SelectSeq(Aggregate(z_anomalies, iqr_anoms, roll.anomalies), Validated)
  IN IF fetched.raised THEN [NoReport EXCEPT !.status = "raised"]
     ELSE IF df = <<>> \/ "daily_enrollments" \notin fetched.columns
     THEN [NoReport EXCEPT !.status = "returned"]
     ELSE IF roll.raised
     THEN [NoReport EXCEPT !.status = "raised", !.df = df, !.ran = TRUE,
                           !.z_anomalies = z_anomalies,
                           !.iqr_anoms = iqr_anoms]
     ELSE [status |-> "returned", part |-> 0, fetch |-> "none", days |-> 0,
           ran |-> TRUE, df |-> df,
           z_anomalies |-> z_anomalies, iqr_anoms |-> iqr_anoms,
           roll_anoms |-> roll.anomalies,
           alerts |-> [k \in 1..Len(validated) |->
                         MakeAlert(validated[k], df, state, district)]]

(***************************************************************************)
(* Input series.  A series is a baseline value with up to four outliers    *)
(* (first row and last three rows); with dup > 0 the rows dup-1 and dup    *)
(* carry the same date (two rows of one day, e.g. two pincodes).           *)
(***************************************************************************)
Bases == {0, 1}

OutVals == {-OutMag, 0, OutMag, BigMag}

\* the least length at which a z-score reaches the cap of the severity:
\* the z-score of one outlier among n - 1 equal points is sqrt(n - 1)
CapLen == SeverityCap * SeverityCap + 1

Lens ==
  {2, 4, 5, 8, 9, 10, 11, 21, Window, Window + 1, MaxLen, CapLen - 1, CapLen,
   LongLen}

\* the rows that may hold an outlier (the long series: its last row only)
OutPos(n) == IF n > MaxLen THEN {n} ELSE {1, n - 1, n}

MkSeries(n, b, outs, dup) ==
  [i \in 1..n |->
     [date |-> i - 1 - (IF dup > 0 /\ i >= dup THEN 1 ELSE 0),
      value |-> IF i \in DOMAIN outs THEN outs[i] ELSE b]]

DupChoices(n) == IF n > MaxLen THEN {0} ELSE {0, 2, n} \cap (0..n)

(***************************************************************************)
(* The series of verify_anomaly.py (TestAnomalyDetection.setUp): TestLen   *)
(* daily points around TestBase, a spike at index SpikeIndex and a drop at *)
(* index DropIndex (0-based).  The random noise is a repeating pattern of  *)
(* -2..2 scaled by amp and shifted by phase; shape tells which of the two  *)
(* outliers the series holds.                                              *)
(***************************************************************************)
TestLen == 90
TestBase == 100
SpikeIndex == 50
SpikeValue == 200
DropIndex == 70
DropValue == 50

\* largest noise amplitude (values within TestBase +- 2 * MaxNoise)
MaxNoise == 3

Shapes == {"spike", "drop", "both"}

TestSeries(amp, phase, shape) ==
  [i \in 1..TestLen |->
     [date |-> i - 1,
      value |->
        IF i - 1 = SpikeIndex /\ shape \in {"spike", "both"} THEN SpikeValue
        ELSE IF i - 1 = DropIndex /\ shape \in {"drop", "both"}
             THEN DropValue
             ELSE TestBase + amp * (((3 * i + phase) % 5) - 2)]]

\* the partitions of the enrollments table: (state, district) pairs
NParts == 2

DistrictNames == <<"D1", "D2", "D3", "D4", "D5", "D6">>

PartKey(p) == [state |-> "S1", district |-> DistrictNames[p]]

(***************************************************************************)
(* State                                                                   *)
(***************************************************************************)
VARIABLES
  table,       \* partition -> its rows of the enrollments table, by date
  report,      \* the latest call of comprehensive_anomaly_report
  task,        \* generate_anomaly_report_task: its state and retry count
  scan_pc,     \* position inside detect_anomalies_daily_sync
  cur,         \* the partition the scan loop is at
  all_alerts,  \* the scan's all_alerts list
  store,       \* the anomaly_alerts table
  hist,        \* what went wrong in the current scan, and call counts
  sync_report  \* the latest direct call of the services copy of the report

vars ==
  <<fp_up, sync_report, table, report, task, scan_pc, cur, all_alerts, store,
    hist>>

\* a task that was not enqueued yet.  params: the dictionary the task was
\* enqueued with, as a set of <<key, value>> pairs; countdown: the delay in
\* seconds before a retry is executed
NoTask == [state |-> "idle", retries |-> 0, params |-> {}, countdown |-> 0]

\* fetch_failed: partitions whose read_sql raised; detect_raised: partitions
\* whose detection raised; list_failed: the partition query raised;
\* sink_failed: to_sql raised; writes: to_sql calls that succeeded;
\* store_before: the alert table when the scan began; scan_calls: calls of
\* the scan by the current task; runs: tasks enqueued so far
NoHist ==
  [fetch_failed |-> {}, detect_raised |-> {}, list_failed |-> FALSE,
   sink_failed |-> FALSE, writes |-> 0, store_before |-> <<>>,
   scan_calls |-> 0, runs |-> 0]

\* one call of comprehensive_anomaly_report(state, district, days) of
\* src/anomaly_detection.py for partition p; read_ok tells whether
\* pd.read_sql succeeds
ReportCallDays(p, read_ok, days) ==
  [comprehensive_anomaly_report(
     get_time_series_data(table[p], read_ok, days),
     PartKey(p).state, PartKey(p).district)
   EXCEPT !.part = p, !.days = days,
          !.fetch = IF read_ok THEN "ok" ELSE "query_error"]

\* the call with the default days=90, as the scan makes it.  Inside the scan
\* get_engine() has succeeded at line 134, so that line 7 of the services
\* copy succeeds too and the two copies of the report do the same.
ReportCall(p, read_ok) == ReportCallDays(p, read_ok, Days)

\* one call of comprehensive_anomaly_report of services/anomaly.py;
\* engine_ok tells whether get_engine() succeeds
ReportCallSync(p, engine_ok, read_ok, days) ==
  [comprehensive_anomaly_report(
     get_time_series_data_sync(table[p], engine_ok, read_ok, days),
     PartKey(p).state, PartKey(p).district)
   EXCEPT !.part = p, !.days = days,
          !.fetch = IF ~engine_ok THEN "engine_error"
                    ELSE IF read_ok THEN "ok" ELSE "query_error"]

(***************************************************************************)
(* SpecReport: comprehensive_anomaly_report on one series                  *)
(***************************************************************************)
InitReport ==
  /\ \/ \E n \in Lens, b \in Bases :
          \E dup \in DupChoices(n), outs \in [OutPos(n) -> OutVals \cup {b}] :
            table = <<MkSeries(n, b, outs, dup)>>
     \/ \E amp \in 0..MaxNoise, phase \in 0..4, shape \in Shapes :
          table = <<TestSeries(amp, phase, shape)>>
     \/ table = << <<>> >>
  /\ fp_up \in BOOLEAN
  /\ report = NoReport
  /\ sync_report = NoReport
  /\ task = NoTask
  /\ scan_pc = "none"
  /\ cur = 0
  /\ all_alerts = <<>>
  /\ store = <<>>
  /\ hist = NoHist

\* the days arguments tried: the default and, on a table the LIMIT would
\* cut, a short one
DaysChoices ==
  IF Len(table[1]) > ShortDays + Lookback THEN {ShortDays, Days} ELSE {Days}

CallReport(read_ok, days) ==
  /\ report.status = "none"
  /\ report' = ReportCallDays(1, read_ok, days)
  /\ UNCHANGED <<fp_up, sync_report, table, task, scan_pc, cur, all_alerts,
                 store, hist>>

\* the same call (same arguments, same outcome of read_sql) made on the
\* copy of services/anomaly.py
CallReportSync(engine_ok) ==
  /\ report.status # "none"
  /\ sync_report.status = "none"
  /\ sync_report' =
       ReportCallSync(1, engine_ok, report.fetch = "ok", report.days)
  /\ UNCHANGED <<fp_up, table, report, task, scan_pc, cur, all_alerts, store,
                 hist>>

NextReport ==
  \/ \E read_ok \in BOOLEAN, days \in DaysChoices : CallReport(read_ok, days)
  \/ \E engine_ok \in BOOLEAN : CallReportSync(engine_ok)

SpecReport == InitReport /\ [][NextReport]_vars

(***************************************************************************)
(* Spec: the multi-partition scan detect_anomalies_daily_sync (the Celery  *)
(* task detect_anomalies_daily of src/anomaly_detection.py has the same    *)
(* body) run by generate_anomaly_report_task.                              *)
(***************************************************************************)
MaxRetries == 3
RetryCountdown == 60

\* tasks enqueued in one behaviour
MaxRuns == 2

\* what a partition of the scan may hold: a quiet series, a drop confirmed
\* by all three detectors, and a series whose last two rows share a date
ScanFamily ==
  { MkSeries(IqrMinLen, 1, <<>>, 0),
    MkSeries(Window + 1, 1, (Window + 1) :> 0, 0),
    MkSeries(Window + 1, 1, <<>>, Window + 1) }

\* no series of ScanFamily has a z-score at the threshold, and the scan
\* makes no direct call of the report
Init ==
  /\ table \in [1..NParts -> ScanFamily]
  /\ fp_up = FALSE
  /\ report = NoReport
  /\ sync_report = NoReport
  /\ task = NoTask
  /\ scan_pc = "none"
  /\ cur = 0
  /\ all_alerts = <<>>
  /\ store = <<>>
  /\ hist = NoHist

\* the params a task is enqueued with: {} by daily_anomaly_scan, and the
\* dictionary of test_anomaly_task
ParamsChoices == { {}, {<<"state", "All">>} }

\* daily_anomaly_scan: generate_anomaly_report_task.delay({}), or any other
\* caller of delay(params)
Enqueue(params) ==
  /\ task.state \in {"idle", "success", "failure"}
  /\ hist.runs < MaxRuns
  /\ task' = [state |-> "queued", retries |-> 0, params |-> params,
              countdown |-> 0]
  /\ hist' = [hist EXCEPT !.runs = @ + 1, !.scan_calls = 0]
  /\ UNCHANGED <<fp_up, sync_report, table, report, scan_pc, cur, all_alerts,
                 store>>

\* a worker runs the task body (after the countdown of a retry), which
\* reads params.get('state') and params.get('district') for its log line
\* and calls detect_anomalies_daily_sync()
TaskRun ==
  /\ task.state \in {"queued", "retry"}
  /\ task' = [task EXCEPT !.state = "running", !.countdown = 0]
  /\ scan_pc' = "engine"
  /\ cur' = 0
  /\ all_alerts' = <<>>
  /\ hist' = [NoHist EXCEPT !.store_before = store,
                            !.scan_calls = hist.scan_calls + 1,
                            !.runs = hist.runs]
  /\ UNCHANGED <<fp_up, sync_report, table, report, store>>

\* line 134: engine = get_engine(), outside the try
GetEngine(ok) ==
  /\ scan_pc = "engine"
  /\ scan_pc' = IF ok THEN "list" ELSE "raised"
  /\ UNCHANGED <<fp_up, sync_report, table, report, task, cur, all_alerts,
                 store, hist>>

\* line 136: the partition query; an exception goes to the except of line 145
ListPartitions(ok) ==
  /\ scan_pc = "list"
  /\ IF ok
     THEN /\ scan_pc' = "loop"
          /\ cur' = 1
          /\ hist' = hist
     ELSE /\ scan_pc' = "returned"
          /\ cur' = cur
          /\ hist' = [hist EXCEPT !.list_failed = TRUE]
  /\ all_alerts' = <<>>
  /\ UNCHANGED <<fp_up, sync_report, table, report, task, store>>

\* variant of ProcessPartition: all_alerts = alerts instead of
\* all_alerts.extend(alerts)
ProcessPartition_Overwrite(read_ok) ==
  /\ scan_pc = "loop"
  /\ cur <= NParts
  /\ report' = ReportCall(cur, read_ok)
  /\ hist' = [hist EXCEPT
                !.fetch_failed = IF read_ok THEN @ ELSE @ \cup {cur},
                !.detect_raised = IF read_ok /\ report'.status = "raised"
                                  THEN @ \cup {cur} ELSE @]
  /\ IF report'.status = "raised"
     THEN /\ scan_pc' = "returned"
          /\ UNCHANGED <<cur, all_alerts>>
     ELSE /\ all_alerts' = report'.alerts
          /\ cur' = cur + 1
          /\ scan_pc' = scan_pc
  /\ UNCHANGED <<fp_up, sync_report, table, task, store>>

\* lines 138-140: one iteration of the loop.  An exception leaving
\* comprehensive_anomaly_report goes to the except of line 145, which ends
\* the scan.
ProcessPartition(read_ok) ==
  /\ scan_pc = "loop"
  /\ cur <= NParts
  /\ report' = ReportCall(cur, read_ok)
  /\ hist' = [hist EXCEPT
                !.fetch_failed = IF read_ok THEN @ ELSE @ \cup {cur},
                !.detect_raised = IF read_ok /\ report'.status = "raised"
                                  THEN @ \cup {cur} ELSE @]
  /\ IF report'.status = "raised"
     THEN /\ scan_pc' = "returned"
          /\ UNCHANGED <<cur, all_alerts>>
     ELSE /\ all_alerts' = all_alerts \o report'.alerts
          /\ cur' = cur + 1
          /\ scan_pc' = scan_pc
  /\ UNCHANGED <<fp_up, sync_report, table, task, store>>

\* variant of PersistNothing: the empty list is written too
PersistNothing_WritesEmpty ==
  /\ scan_pc = "loop"
  /\ cur > NParts
  /\ all_alerts = <<>>
  /\ scan_pc' = "returned"
  /\ hist' = [hist EXCEPT !.writes = @ + 1]
  /\ UNCHANGED <<fp_up, sync_report, table, report, task, cur, all_alerts,
                 store>>

\* lines 141-144 with an empty all_alerts: nothing is written
PersistNothing ==
  /\ scan_pc = "loop"
  /\ cur > NParts
  /\ all_alerts = <<>>
  /\ scan_pc' = "returned"
  /\ UNCHANGED <<fp_up, sync_report, table, report, task, cur, all_alerts,
                 store, hist>>

\* variant of Persist: to_sql(..., if_exists='replace')
Persist_Replace(ok) ==
  /\ scan_pc = "loop"
  /\ cur > NParts
  /\ all_alerts # <<>>
  /\ IF ok
     THEN /\ store' = all_alerts
          /\ hist' = [hist EXCEPT !.writes = @ + 1]
     ELSE /\ store' = store
          /\ hist' = [hist EXCEPT !.sink_failed = TRUE]
  /\ scan_pc' = "returned"
  /\ UNCHANGED <<fp_up, sync_report, table, report, task, cur, all_alerts>>

\* lines 141-146: one to_sql(..., if_exists='append') of all the alerts; an
\* exception is caught by the except of line 145 and printed
Persist(ok) ==
  /\ scan_pc = "loop"
  /\ cur > NParts
  /\ all_alerts # <<>>
  /\ IF ok
     THEN /\ store' = store \o all_alerts
          /\ hist' = [hist EXCEPT !.writes = @ + 1]
     ELSE /\ store' = store
          /\ hist' = [hist EXCEPT !.sink_failed = TRUE]
  /\ scan_pc' = "returned"
  /\ UNCHANGED <<fp_up, sync_report, table, report, task, cur, all_alerts>>

\* variant of TaskSuccess: the task asks for a retry after a scan that
\* returned
TaskSuccess_Requeue ==
  /\ task.state = "running"
  /\ scan_pc = "returned"
  /\ task' = [task EXCEPT !.state = "retry", !.retries = @ + 1]
  /\ scan_pc' = "none"
  /\ UNCHANGED <<fp_up, sync_report, table, report, cur, all_alerts, store,
                 hist>>

\* tasks.py lines 64-65: the scan returned, the task returns status success
TaskSuccess ==
  /\ task.state = "running"
  /\ scan_pc = "returned"
  /\ task' = [task EXCEPT !.state = "success"]
  /\ scan_pc' = "none"
  /\ UNCHANGED <<fp_up, sync_report, table, report, cur, all_alerts, store,
                 hist>>

\* variant of TaskRetry: one retry more than max_retries
TaskRetry_OneMore ==
  /\ task.state = "running"
  /\ scan_pc = "raised"
  /\ task' = IF task.retries <= MaxRetries
             THEN [task EXCEPT !.state = "retry", !.retries = @ + 1,
                               !.countdown = RetryCountdown]
             ELSE [task EXCEPT !.state = "failure"]
  /\ scan_pc' = "none"
  /\ UNCHANGED <<fp_up, sync_report, table, report, cur, all_alerts, store,
                 hist>>

\* tasks.py lines 67-69: self.retry(exc=e, countdown=60) re-queues the task,
\* or re-raises e once max_retries retries were made
TaskRetry ==
  /\ task.state = "running"
  /\ scan_pc = "raised"
  /\ task' = IF task.retries < MaxRetries
             THEN [task EXCEPT !.state = "retry", !.retries = @ + 1,
                               !.countdown = RetryCountdown]
             ELSE [task EXCEPT !.state = "failure"]
  /\ scan_pc' = "none"
  /\ UNCHANGED <<fp_up, sync_report, table, report, cur, all_alerts, store,
                 hist>>

Next ==
  \/ \E params \in ParamsChoices : Enqueue(params)
  \/ TaskRun
  \/ \E ok \in BOOLEAN : GetEngine(ok)
  \/ \E ok \in BOOLEAN : ListPartitions(ok)
  \/ \E read_ok \in BOOLEAN : ProcessPartition(read_ok)
  \/ PersistNothing
  \/ \E ok \in BOOLEAN : Persist(ok)
  \/ TaskSuccess
  \/ TaskRetry

Spec == Init /\ [][Next]_vars

(***************************************************************************)
(* Properties of the report (checked under SpecReport)                     *)
(***************************************************************************)
Methods == {"z_score", "iqr", "rolling_deviation"}

Returned == report.status = "returned"

AlertIdx == 1..Len(report.alerts)

MethodSet(a) == {a.detection_methods[k] : k \in 1..Len(a.detection_methods)}

\* the findings of fs whose timestamp prints as ds
FindingsOn(fs, ds) == {k \in 1..Len(fs) : strftime(fs[k].date) = ds}

\* the detectors that returned a finding for the timestamp printed as ds
MethodsAt(ds) ==
  {m \in Methods :
     \/ m = "z_score" /\ FindingsOn(report.z_anomalies, ds) # {}
     \/ m = "iqr" /\ FindingsOn(report.iqr_anoms, ds) # {}
     \/ m = "rolling_deviation" /\ FindingsOn(report.roll_anoms, ds) # {}}

SeriesDates == {strftime(report.df[i].date) : i \in 1..Len(report.df)}

\* C1: every alert of the returned list names at least 2 distinct methods
\* out of z_score, iqr, rolling_deviation, and at least 2 distinct detectors
\* have a finding for its timestamp.
C1_DistinctMethods ==
  Returned =>
    \A k \in AlertIdx :
      /\ MethodSet(report.alerts[k]) \subseteq Methods
      /\ Cardinality(MethodSet(report.alerts[k])) >= 2
      /\ Cardinality(MethodsAt(report.alerts[k].date)) >= 2

\* C2: every timestamp for which at least 2 distinct detectors returned a
\* finding has exactly one alert in the returned list, and the alert's value
\* is the value of a row of the series at that timestamp.
C2_OneAlertPerConfirmedTimestamp ==
  Returned =>
    \A ds \in SeriesDates :
      Cardinality(MethodsAt(ds)) >= 2 =>
        /\ Cardinality({k \in AlertIdx : report.alerts[k].date = ds}) = 1
        /\ \A k \in AlertIdx :
             report.alerts[k].date = ds =>
               \E i \in 1..Len(report.df) :
                 /\ strftime(report.df[i].date) = ds
                 /\ report.alerts[k].anomaly_value = report.df[i].value

C2_Witness ==
  /\ Returned
  /\ \E ds \in SeriesDates :
       /\ MethodsAt(ds) = {"z_score", "iqr"}
       /\ \E k \in AlertIdx : report.alerts[k].date = ds
  /\ \E ds \in SeriesDates : Cardinality(MethodsAt(ds)) = 1

\* s hundredths is min(10.0, z) rounded to 2 decimals, z given by its square:
\* 10.00 when z >= 10, else |s/100 - z| <= 0.005, i.e.
\* (2s-1)^2 <= 40000 z^2 < (2s+1)^2
IsRoundedCappedZ(s, z) ==
  IF z.num >= 100 * z.den THEN s = 1000
  ELSE LET F == FloorScaled(z.num, z.den)
       IN (2 * s - 1) * (2 * s - 1) <= F /\ F < (2 * s + 1) * (2 * s + 1)

\* C3: the severity of an alert is min(10.0, z) rounded to 2 decimals, z
\* being the z-score of a z_score finding for the alert's timestamp, when
\* there is one, and exactly 5.0 when the z_score detector has no finding for
\* that timestamp.
C3_Severity ==
  Returned =>
    \A k \in AlertIdx :
      LET a == report.alerts[k]
          zs == FindingsOn(report.z_anomalies, a.date)
      IN IF zs # {}
         THEN \E j \in zs :
                IsRoundedCappedZ(a.severity_score,
                                 report.z_anomalies[j].z_score)
         ELSE a.severity_score = 500

C3_Witness ==
  /\ Returned
  /\ \E k \in AlertIdx :
       /\ MethodSet(report.alerts[k]) = {"iqr", "rolling_deviation"}
       /\ report.alerts[k].severity_score = 500
  /\ \E k \in AlertIdx :
       /\ "z_score" \in MethodSet(report.alerts[k])
       /\ report.alerts[k].severity_score # 500

\* C4: every alert has a severity_score, and it lies in [0, 10] (0..1000
\* hundredths, so it has at most 2 decimals).
C4_SeverityRange ==
  Returned =>
    \A k \in AlertIdx :
      /\ "severity_score" \in DOMAIN report.alerts[k]
      /\ report.alerts[k].severity_score \in 0..1000

\* an alert whose z-score is above 10 and was capped
C4_Witness ==
  /\ Returned
  /\ \E k \in AlertIdx :
       /\ report.alerts[k].severity_score = 1000
       /\ \E j \in FindingsOn(report.z_anomalies, report.alerts[k].date) :
            report.z_anomalies[j].z_score.num
              > 100 * report.z_anomalies[j].z_score.den

\* C5: with a rolling_deviation finding for the timestamp the alert is a
\* 'drop' exactly when its value is below that finding's rolling_mean;
\* without one, exactly when its value is below the mean of the whole series;
\* otherwise (a value equal to the reference included) it is a 'spike'.
C5_Direction ==
  Returned =>
    \A k \in AlertIdx :
      LET a == report.alerts[k]
          rs == FindingsOn(report.roll_anoms, a.date)
          n == Len(report.df)
          below == IF rs # {}
                   THEN \A j \in rs :
                          a.anomaly_value * report.roll_anoms[j].rolling_mean.den
                            < report.roll_anoms[j].rolling_mean.num
                   ELSE a.anomaly_value * n
                          < SumRange(Values(report.df), 1, n)
      IN a.anomaly_type = (IF below THEN "drop" ELSE "spike")

\* the two references disagree: a spike over its rolling mean that is below
\* the series mean, next to an alert without a rolling_deviation finding
C5_Witness ==
  /\ Returned
  /\ \E k \in AlertIdx :
       /\ "rolling_deviation" \in MethodSet(report.alerts[k])
       /\ report.alerts[k].anomaly_type = "spike"
       /\ report.alerts[k].anomaly_value * Len(report.df)
            < SumRange(Values(report.df), 1, Len(report.df))
  /\ \E k \in AlertIdx :
       "rolling_deviation" \notin MethodSet(report.alerts[k])

(***************************************************************************)
(* Properties of the detectors (checked under SpecReport, on the locals    *)
(* z_anomalies, iqr_anoms and roll_anoms of the report)                    *)
(***************************************************************************)
Called == report.status # "none" /\ report.df # <<>>

\* n * (x_i - mean) for every position i: integers
ScaledDevs(df) ==
  LET total == SumRange(Values(df), 1, Len(df))
  IN [i \in 1..Len(df) |-> Len(df) * df[i].value - total]

\* n^2 * (population variance): the mean of the squared scaled deviations
ScaledVar(devs) ==
  SumRange([j \in 1..Len(devs) |-> devs[j] * devs[j]], 1, Len(devs))
    \div Len(devs)

RECURSIVE SortedValues(_, _, _)
\* the values of `left` in ascending order, each as many times as it is
\* among vals[1..k]: the least of them first, then the others
SortedValues(vals, k, left) ==
  IF left = {} THEN <<>>
  ELSE LET least == CHOOSE v \in left : \A w \in left : v <= w
           times == Cardinality({i \in 1..k : vals[i] = least})
       IN [i \in 1..times |-> least]
            \o SortedValues(vals, k, left \ {least})

\* vals[1..k] in ascending order
SortedPrefix(vals, k) == SortedValues(vals, k, {vals[i] : i \in 1..k})

\* 4 * (the q4/4 quantile), interpolated linearly between the two
\* neighbouring values of the sorted series
SortedQuantile4(sorted, q4) ==
  LET pos4 == (Len(sorted) - 1) * q4
      k == pos4 \div 4
  IN IF pos4 % 4 = 0 THEN 4 * sorted[k + 1]
     ELSE (4 - (pos4 % 4)) * sorted[k + 1] + (pos4 % 4) * sorted[k + 2]

\* C10: on a series of length >= 5, iqr_outliers returns one finding for
\* exactly the positions whose value is strictly below Q1 - 1.5*IQR or
\* strictly above Q3 + 1.5*IQR (Q1, Q3 the linearly interpolated quartiles of
\* the whole series), in series order, and every finding carries these two
\* bounds (kept times 8).
C10_IqrFindings ==
  (Called /\ Len(report.df) >= 5) =>
    LET df == report.df
        sorted == SortedPrefix(Values(df), Len(df))
        q1 == SortedQuantile4(sorted, 1)
        q3 == SortedQuantile4(sorted, 3)
        lo == 2 * q1 - 3 * (q3 - q1)
        hi == 2 * q3 + 3 * (q3 - q1)
        Outside(i) == 8 * df[i].value < lo \/ 8 * df[i].value > hi
        hits == Positions([i \in 1..Len(df) |-> Outside(i)])
    IN report.iqr_anoms =
         [k \in 1..Len(hits) |->
            [date |-> df[hits[k]].date, value |-> df[hits[k]].value,
             lower_bound |-> lo, upper_bound |-> hi, method |-> "iqr"]]

\* interpolated quartiles, a positive IQR and a finding on each side
C10_Witness ==
  /\ Called
  /\ Len(report.df) >= 5
  /\ (Len(report.df) - 1) % 4 # 0
  /\ \E j, k \in 1..Len(report.iqr_anoms) :
       /\ 8 * report.iqr_anoms[j].value < report.iqr_anoms[j].lower_bound
       /\ 8 * report.iqr_anoms[k].value > report.iqr_anoms[k].upper_bound
       /\ report.iqr_anoms[j].lower_bound < report.iqr_anoms[j].upper_bound

RECURSIVE PrefixSum(_, _)
\* vals[1] + ... + vals[i]: the first half, then the rest
PrefixSum(vals, i) ==
  IF i = 0 THEN 0
  ELSE IF i = 1 THEN vals[1]
  ELSE LET half == i \div 2
       IN PrefixSum(vals, half)
            + PrefixSum([j \in 1..(i - half) |-> vals[half + j]], i - half)

\* the rolling detector was run: the series has at least `Window` points
RollingRan == Called /\ Len(report.df) >= Window

\* the positions the loop of the rolling detector visits
Evaluated(df) == (Window + 1)..Len(df)

\* the findings of the rolling detector when position i is compared with
\* the mean WSum[i] / Window: flagged when |x - mean| > 0.5 * |mean| and,
\* if zero_flags is FALSE, only where the mean is not zero
RollingFindings(df, WSum, zero_flags) ==
  LET Over(i) == /\ i \in Evaluated(df)
                 /\ 2 * Abs(Window * df[i].value - WSum[i]) > Abs(WSum[i])
                 /\ (zero_flags \/ WSum[i] # 0)
      hits == Positions([i \in 1..Len(df) |-> Over(i)])
  IN [k \in 1..Len(hits) |->
        [date |-> df[hits[k]].date, value |-> df[hits[k]].value,
         rolling_mean |-> [num |-> WSum[hits[k]], den |-> Window],
         deviation_pct |->
           [num |-> Abs(Window * df[hits[k]].value - WSum[hits[k]]),
            den |-> Abs(WSum[hits[k]])],
         method |-> "rolling_deviation"]]

\* sum of the Window points that end at i, i included (0 before a full
\* window)
SumEndingAt(df) ==
  [i \in 1..Len(df) |->
     IF i < Window THEN 0
     ELSE PrefixSum(Values(df), i) - PrefixSum(Values(df), i - Window)]

\* sum of the Window points before i, i left out
SumBefore(df) ==
  [i \in 1..Len(df) |->
     IF i <= Window THEN 0
     ELSE PrefixSum(Values(df), i - 1)
            - PrefixSum(Values(df), i - 1 - Window)]

\* a timestamp of an evaluated position occurs twice in the series
EvaluatedDateRepeats(df) ==
  \E i \in Evaluated(df) :
    \E j \in 1..Len(df) : j # i /\ df[j].date = df[i].date

C12_ZeroMeanNotFlagged ==
  (RollingRan /\ Returned) =>
    /\ \A k \in 1..Len(report.roll_anoms) :
         report.roll_anoms[k].deviation_pct.den # 0
    /\ \A i \in Evaluated(report.df) :
         SumEndingAt(report.df)[i] = 0 =>
           \A k \in 1..Len(report.roll_anoms) :
             report.roll_anoms[k].date # report.df[i].date

\* the prefix of the series that has m rows
Prefix(df, m) == SubSeq(df, 1, m)

\* C13: a detector given fewer points than its minimum (3 for z_score, 5
\* for iqr, Window for the rolling detector) returns an empty list and does
\* not raise; checked on the series the report was called with and on every
\* shorter prefix of it, the empty series included.
C13_ShortSeriesEmpty ==
  Called =>
    /\ Len(report.df) < ZMinLen => report.z_anomalies = <<>>
    /\ Len(report.df) < IqrMinLen => report.iqr_anoms = <<>>
    /\ Len(report.df) < Window =>
         report.status = "returned" /\ report.roll_anoms = <<>>
    /\ \A m \in 0..Len(report.df) :
         /\ m < ZMinLen =>
              z_score_anomalies(Prefix(report.df, m), ZThreshold) = <<>>
         /\ m < IqrMinLen => iqr_outliers(Prefix(report.df, m)) = <<>>
         /\ m < Window =>
              rolling_average_deviation(Prefix(report.df, m), Window)
                = [raised |-> FALSE, anomalies |-> <<>>]

\* a series of 4 points, too short for iqr only, one of them far from the
\* other three
C13_Witness ==
  /\ Called
  /\ Len(report.df) = IqrMinLen - 1
  /\ report.iqr_anoms = <<>>
  /\ \E i \in 1..Len(report.df) :
       \A j \in 1..Len(report.df) :
         j # i => Abs(report.df[i].value - report.df[j].value) >= BigMag - 1

\* every row of the series has the same value
ConstantSeries(df) == \A i, j \in 1..Len(df) : df[i].value = df[j].value

\* thresholds tried for z_score_anomalies
Thresholds == 1..ZThreshold

\* C14: on a series of length >= 3 whose values are all equal (standard
\* deviation zero) z_score_anomalies returns an empty list, for the
\* threshold of the report and for every threshold of Thresholds.
C14_ZeroStdEmpty ==
  (Called /\ Len(report.df) >= ZMinLen /\ ConstantSeries(report.df)) =>
    /\ report.z_anomalies = <<>>
    /\ \A t \in Thresholds : z_score_anomalies(report.df, t) = <<>>

C14_Witness ==
  /\ Called
  /\ Len(report.df) >= Window
  /\ ConstantSeries(report.df)
  /\ report.df[1].value # 0
  /\ report.z_anomalies = <<>>

\* C15: for a constant series of length >= 5 the three detectors return
\* empty lists and comprehensive_anomaly_report returns no alert.
C15_ConstantSeriesQuiet ==
  (Called /\ Len(report.df) >= IqrMinLen /\ ConstantSeries(report.df)) =>
    /\ report.status = "returned"
    /\ report.z_anomalies = <<>>
    /\ report.iqr_anoms = <<>>
    /\ report.roll_anoms = <<>>
    /\ report.alerts = <<>>

\* the timestamps of a list of findings
DatesOf(findings) == {findings[k].date : k \in 1..Len(findings)}

\* position i holds the only value off a constant baseline b >= 0, and the
\* value is at least twice the baseline or at most zero
ExtremeOutlierAt(df, i) ==
  /\ \A j, k \in 1..Len(df) \ {i} : df[j].value = df[k].value
  /\ \A j \in 1..Len(df) \ {i} :
       /\ df[j].value >= 0
       /\ df[i].value # df[j].value
       /\ (df[i].value >= 2 * df[j].value \/ df[i].value <= 0)

\* C16 as stated: on a series of at least Window + 1 points with one
\* extreme outlier on a stable baseline, wherever the outlier is, its
\* timestamp is in the output of each of the three detectors.
C16_OutlierFoundAnywhere ==
  (Called /\ Returned /\ Len(report.df) >= Window + 1) =>
    \A i \in 1..Len(report.df) :
      ExtremeOutlierAt(report.df, i) =>
        /\ report.df[i].date \in DatesOf(report.z_anomalies)
        /\ report.df[i].date \in DatesOf(report.iqr_anoms)
        /\ report.df[i].date \in DatesOf(report.roll_anoms)

\* C16 amended: on such a series the outlier's timestamp is in the output
\* of z_score_anomalies and of iqr_outliers; the rolling detector raises
\* when the timestamp of an evaluated position is repeated, and otherwise
\* its output holds the outlier's timestamp exactly when the outlier comes
\* after the first Window positions.
C16_OutlierFoundAfterWindow ==
  (Called /\ Len(report.df) >= Window + 1) =>
    \A i \in 1..Len(report.df) :
      ExtremeOutlierAt(report.df, i) =>
        /\ report.df[i].date \in DatesOf(report.z_anomalies)
        /\ report.df[i].date \in DatesOf(report.iqr_anoms)
        /\ IF EvaluatedDateRepeats(report.df)
           THEN report.status = "raised"
           ELSE /\ Returned
                /\ report.df[i].date \in DatesOf(report.roll_anoms)
                     <=> i > Window

\* a drop below a baseline of 1 at the last position, found by all three
C16_Witness ==
  /\ Called
  /\ Returned
  /\ Len(report.df) >= Window + 1
  /\ ExtremeOutlierAt(report.df, Len(report.df))
  /\ report.df[Len(report.df)].value < report.df[1].value
  /\ report.df[Len(report.df)].date
       \in (DatesOf(report.z_anomalies) \cap DatesOf(report.iqr_anoms))
             \cap DatesOf(report.roll_anoms)

(***************************************************************************)
(* The scenarios of verify_anomaly.py (checked under SpecReport)           *)
(***************************************************************************)
\* the report was called on a test series that holds the spike / the drop
SpikeScenario ==
  /\ Called
  /\ Len(report.df) = TestLen
  /\ report.df[SpikeIndex + 1].value = SpikeValue

DropScenario ==
  /\ Called
  /\ Len(report.df) = TestLen
  /\ report.df[DropIndex + 1].value = DropValue

\* the alerts for the timestamp of the 0-based index
AlertsAtIndex(index) ==
  {k \in AlertIdx : report.alerts[k].date = strftime(index)}

\* the square of the z-score of the point at the 0-based index
ZSquareAt(index) ==
  LET devs == ScaledDevs(report.df)
  IN [num |-> devs[index + 1] * devs[index + 1], den |-> ScaledVar(devs)]

C18_DropClassified ==
  DropScenario =>
    /\ Returned
    /\ AlertsAtIndex(DropIndex) # {}
    /\ \A k \in AlertsAtIndex(DropIndex) :
         report.alerts[k].anomaly_type = "drop"

\* the drop is confirmed by z_score and iqr only, so the mean of the whole
\* series decides its direction
C18_Witness ==
  /\ DropScenario
  /\ ~ConstantSeries(SubSeq(report.df, 1, SpikeIndex))
  /\ \E k \in AlertsAtIndex(DropIndex) :
       /\ report.alerts[k].anomaly_type = "drop"
       /\ MethodSet(report.alerts[k]) = {"z_score", "iqr"}

\* the printed date a is before the printed date b ('%Y-%m-%d' strings
\* compare as their year, month, day)
DateBefore(a, b) ==
  \/ a[1] < b[1]
  \/ a[1] = b[1] /\ a[2] < b[2]
  \/ a[1] = b[1] /\ a[2] = b[2] /\ a[3] < b[3]

\* C19: the list comprehensive_anomaly_report returns is sorted by
\* ascending timestamp.
C19_AlertsSortedByDate ==
  Returned =>
    \A j, k \in AlertIdx :
      j < k => ~DateBefore(report.alerts[k].date, report.alerts[j].date)

\* C20: the series get_time_series_data hands to the detectors has strictly
\* increasing timestamps: ascending, and no date twice.
C20_StrictlyIncreasingDates ==
  Called =>
    \A i, j \in 1..Len(report.df) :
      i < j => report.df[i].date < report.df[j].date

\* the two direct calls of the report: the copy of src/anomaly_detection.py
\* and the copy of services/anomaly.py
DirectCalls == {report, sync_report}

\* the provider of call r gave no data: read_sql raised, or no row matches
NoData(r) ==
  \/ r.fetch = "query_error"
  \/ (r.fetch = "ok" /\ table[1] = <<>>)

C25_CopiesEquivalent ==
  sync_report.status # "none" =>
    /\ sync_report.status = report.status
    /\ sync_report.alerts = report.alerts

\* the rows get_time_series_data is to return for a call with `days` on a
\* successful read: the last days + 60 rows of the partition, or all of them
MostRecent(rows, days) ==
  LET m == IF Len(rows) <= days + 60 THEN Len(rows) ELSE days + 60
  IN [i \in 1..m |-> rows[Len(rows) - m + i]]

\* C27: on a successful read get_time_series_data(state, district, days)
\* returns the most recent rows of the partition, at most days + 60 of them,
\* in ascending date order; the lookback of 60 beyond `days` is at least the
\* rolling window of 30; and the detectors work on all the returned rows:
\* the z-scores are taken against the variance of all of them and the IQR
\* bounds against the quartiles of all of them.
C27_RecentRowsWithLookback ==
  /\ Lookback >= Window
  /\ \A r \in DirectCalls :
       r.fetch = "ok" =>
         /\ r.df = MostRecent(table[1], r.days)
         /\ Len(r.df) <= r.days + 60
         /\ \A i, j \in 1..Len(r.df) :
              i < j => r.df[i].date <= r.df[j].date
         /\ r.ran = (r.df # <<>>)
         /\ \A k \in 1..Len(r.z_anomalies) :
              r.z_anomalies[k].z_score.den = ScaledVar(ScaledDevs(r.df))
         /\ r.iqr_anoms # <<>> =>
              LET sorted == SortedPrefix(Values(r.df), Len(r.df))
                  q1 == SortedQuantile4(sorted, 1)
                  q3 == SortedQuantile4(sorted, 3)
              IN \A k \in 1..Len(r.iqr_anoms) :
                   /\ r.iqr_anoms[k].lower_bound = 2 * q1 - 3 * (q3 - q1)
                   /\ r.iqr_anoms[k].upper_bound = 2 * q3 + 3 * (q3 - q1)

\* the LIMIT cut a series, and a detector has a finding on a row of the
\* lookback buffer (a row before the last `days` rows)
C27_Witness ==
  /\ report.fetch = "ok"
  /\ Len(table[1]) > report.days + 60
  /\ Len(report.df) = report.days + 60
  /\ \E k \in 1..Len(report.z_anomalies) :
       \E i \in 1..(Len(report.df) - report.days) :
         report.df[i].date = report.z_anomalies[k].date
  /\ \E k \in 1..Len(report.roll_anoms) :
       \E i \in 1..(Len(report.df) - report.days) :
         report.df[i].date = report.roll_anoms[k].date

\* the exact z-score of finding f is above t, is t, is at least t
ScoreAbove(f, t) == f.z_score.num > t * t * f.z_score.den

ScoreIs(f, t) == f.z_score.num = t * t * f.z_score.den

ScoreAtLeast(f, t) == f.z_score.num >= t * t * f.z_score.den

ZFindings == {report.z_anomalies[k] : k \in 1..Len(report.z_anomalies)}

\* C28 as stated: with the threshold 3, z_score_anomalies returns an empty
\* list for every series of 10 or fewer points, and a finding whose score is
\* 10 or more (an alert of severity 10.0) needs a series of at least 102
\* points.
C28_TenPointsNeverFlagged ==
  Called =>
    /\ Len(report.df) <= 10 => report.z_anomalies = <<>>
    /\ \A f \in ZFindings : ScoreAtLeast(f, 10) => Len(report.df) >= 102

\* C28 amended: with the threshold 3, z_score_anomalies returns an empty
\* list for every series of 9 or fewer points; on 10 points the exact score
\* is at most 3 and a point is flagged only where it is 3 and the computed
\* quotient comes out above 3; an exact score above 3 needs at least 11
\* points and a score of 10 or more at least 101 points.
C28_NinePointsNeverFlagged ==
  Called =>
    /\ Len(report.df) <= 9 => report.z_anomalies = <<>>
    /\ Len(report.df) = 10 =>
         /\ \A f \in ZFindings : ScoreIs(f, 3)
         /\ report.z_anomalies # <<>> => fp_up
    /\ \A f \in ZFindings : ScoreAbove(f, 3) => Len(report.df) >= 11
    /\ \A f \in ZFindings : ScoreAtLeast(f, 10) => Len(report.df) >= 101

\* a 9-point series whose extreme outlier the IQR detector finds and the
\* z-score detector does not
C28_Witness ==
  /\ Called
  /\ Len(report.df) = 9
  /\ \E i \in 1..Len(report.df) : report.df[i].value = BigMag
  /\ report.iqr_anoms # <<>>
  /\ report.z_anomalies = <<>>

\* C29 as stated: the severity of every alert is exactly 5.0 or lies in
\* (3.0, 10.0]; no alert scores 3.0 or less.
C29_SeverityAboveThree ==
  Returned =>
    \A k \in AlertIdx :
      \/ report.alerts[k].severity_score = 500
      \/ /\ report.alerts[k].severity_score > 300
         /\ report.alerts[k].severity_score <= 1000

\* C29 amended: the severity of every alert is exactly 5.0 or lies in
\* [3.0, 10.0]; no alert scores less than 3.0, and a severity other than 5.0
\* is the severity of an alert confirmed by z_score.
C29_SeverityAtLeastThree ==
  Returned =>
    \A k \in AlertIdx :
      \/ report.alerts[k].severity_score = 500
      \/ /\ report.alerts[k].severity_score >= 300
         /\ report.alerts[k].severity_score <= 1000
         /\ "z_score" \in MethodSet(report.alerts[k])

\* an alert confirmed by all three methods that scores below 5.0
C29_Witness ==
  /\ Returned
  /\ \E k \in AlertIdx :
       /\ MethodSet(report.alerts[k]) = Methods
       /\ report.alerts[k].severity_score \in 300..499

(***************************************************************************)
(* Properties of the multi-partition scan (checked under Spec)             *)
(***************************************************************************)
RECURSIVE AlertsOfPartitions(_, _)
\* the alerts of the partitions p..NParts outside `skipped`, each partition
\* reported on its own, in partition order
AlertsOfPartitions(p, skipped) ==
  IF p > NParts THEN <<>>
  ELSE (IF p \in skipped THEN <<>> ELSE ReportCall(p, TRUE).alerts)
         \o AlertsOfPartitions(p + 1, skipped)

ScanReturned == scan_pc = "returned" /\ ~hist.list_failed

\* C6: a scan in which the fetch of some partitions fails (and nothing else
\* does) does not raise, and when it has returned the alert store has gained
\* exactly the alerts of the other partitions.
C6_FetchFailureSkipsPartition ==
  /\ hist.fetch_failed # {} => scan_pc # "raised"
  /\ (/\ ScanReturned
      /\ hist.fetch_failed # {}
      /\ hist.detect_raised = {}
      /\ ~hist.sink_failed)
     => store = hist.store_before \o AlertsOfPartitions(1, hist.fetch_failed)

\* one partition with alerts of its own failed to load, the scan returned
\* and the alerts of another partition were persisted
C6_Witness ==
  /\ ScanReturned
  /\ hist.detect_raised = {}
  /\ ~hist.sink_failed
  /\ Cardinality(hist.fetch_failed) = 1
  /\ \E p \in hist.fetch_failed : ReportCall(p, TRUE).alerts # <<>>
  /\ store # hist.store_before

\* C7: a scan whose write to the alert store failed is not reported as a
\* success by generate_anomaly_report_task.
C7_SinkFailureSurfaced ==
  task.state = "success" => ~hist.sink_failed

\* C8: when the detection of a partition raises after a successful fetch,
\* the scan still persists the alerts of every other partition.
C8_DetectionErrorIsolated ==
  (ScanReturned /\ hist.detect_raised # {} /\ ~hist.sink_failed)
    => store = hist.store_before
                 \o AlertsOfPartitions(1, hist.detect_raised
                                            \cup hist.fetch_failed)

\* C22: an execution of generate_anomaly_report_task in which
\* detect_anomalies_daily_sync returns calls it exactly once (the calls made
\* for a task are one per execution: the first one and one per retry) and
\* ends with the status success, whatever params the task was given; no
\* other execution ends with success.
C22_ReturnedScanIsSuccess ==
  /\ [](task.state \in {"running", "success"}
          => hist.scan_calls = task.retries + 1)
  /\ [][(task.state = "running" /\ scan_pc = "returned")
          => /\ task'.state = "success"
             /\ task'.params = task.params
             /\ hist'.scan_calls = hist.scan_calls]_vars
  /\ [][(task'.state = "success" /\ task.state # "success")
          => scan_pc = "returned"]_vars

\* a task enqueued with a non-empty params succeeded in its second
\* execution
C22_Witness ==
  /\ task.state = "success"
  /\ task.params # {}
  /\ task.retries = 1
  /\ hist.scan_calls = 2

\* s is a prefix of t
IsPrefix(s, t) == Len(s) <= Len(t) /\ SubSeq(t, 1, Len(s)) = s

\* how many times alert a is in the list s
Occurrences(s, a) == Cardinality({k \in 1..Len(s) : s[k] = a})

\* the current scan wrote to the alert store and every fetch succeeded
CleanWrite == hist.writes = 1 /\ hist.fetch_failed = {}

\* C23: a scan only appends to the alert store: the store of before stays a
\* prefix, the scan adds the alerts of all partitions after it, and a scan
\* that follows an earlier one stores every alert the store already held one
\* more time.
C23_AppendOnly ==
  /\ [][IsPrefix(store, store')]_vars
  /\ [](CleanWrite
          => store = hist.store_before \o AlertsOfPartitions(1, {}))
  /\ [](CleanWrite
          => \A k \in 1..Len(hist.store_before) :
               Occurrences(store, hist.store_before[k])
                 >= Occurrences(hist.store_before, hist.store_before[k]) + 1)

\* the second of two scans has written: the store holds the alerts of the
\* first scan twice
C23_Witness ==
  /\ hist.runs = 2
  /\ CleanWrite
  /\ hist.store_before # <<>>
  /\ store = hist.store_before \o hist.store_before

\* C24: when detect_anomalies_daily_sync raises, the task is queued for a
\* retry with a countdown of 60 s, at most 3 times per enqueued task: the
\* scan is called at most 4 times, and the failure of the third retry
\* leaves the task failed, from where only a new task is started.
C24_BoundedRetries ==
  /\ [](task.retries <= 3 /\ hist.scan_calls <= 4)
  /\ [](task.state = "retry" => task.countdown = 60)
  /\ [](task.state = "failure"
          => task.retries = 3 /\ hist.scan_calls = 4)
  /\ [][(task.state = "running" /\ scan_pc = "raised")
          => IF task.retries < 3
             THEN /\ task'.state = "retry"
                  /\ task'.retries = task.retries + 1
                  /\ task'.countdown = 60
             ELSE task'.state = "failure"]_vars
  /\ [][task.state = "failure" => task'.state \in {"failure", "queued"}]_vars

\* a task has failed after four calls of the scan
C24_Witness ==
  /\ task.state = "failure"
  /\ task.retries = 3
  /\ hist.scan_calls = 4

RECURSIVE AlertsUpTo(_, _)
\* the alerts of the partitions 1..n in partition order, each from a call of
\* the report for that partition alone; the partitions of `skipped` (their
\* fetch fails) give none
AlertsUpTo(n, skipped) ==
  IF n <= 0 THEN <<>>
  ELSE AlertsUpTo(n - 1, skipped)
         \o (IF n \in skipped THEN <<>> ELSE ReportCall(n, TRUE).alerts)

\* alert a carries the identity of partition p, the metric name, and the
\* date and value of a row of p
FromPartition(a, p) ==
  /\ a.state = PartKey(p).state
  /\ a.district = PartKey(p).district
  /\ a.metric_name = "daily_enrollments"
  /\ \E i \in 1..Len(table[p]) :
       /\ strftime(table[p][i].date) = a.date
       /\ table[p][i].value = a.anomaly_value

\* C26: in a scan in which no partition raises, the collected alerts are the
\* concatenation, in partition order, of the alerts of each processed
\* partition reported alone, and each collected alert carries the state and
\* district of the partition whose rows produced it and the metric name
\* daily_enrollments.
C26_PartitionsIndependent ==
  (/\ scan_pc \in {"loop", "returned"}
   /\ ~hist.list_failed
   /\ hist.detect_raised = {})
  => /\ all_alerts = AlertsUpTo(cur - 1, hist.fetch_failed)
     /\ \A p \in 1..(cur - 1) :
          LET before == Len(AlertsUpTo(p - 1, hist.fetch_failed))
              upto == Len(AlertsUpTo(p, hist.fetch_failed))
          IN \A k \in (before + 1)..upto :
               k <= Len(all_alerts) /\ FromPartition(all_alerts[k], p)

\* every partition was processed and each one contributed alerts
C26_Witness ==
  /\ scan_pc = "returned"
  /\ cur = NParts + 1
  /\ hist.fetch_failed = {}
  /\ hist.detect_raised = {}
  /\ \A p \in 1..NParts : ReportCall(p, TRUE).alerts # <<>>
  /\ Len(all_alerts) >= NParts

\* the current scan ended without its write: a step raised
ScanFailed ==
  \/ scan_pc = "raised"
  \/ hist.list_failed
  \/ hist.detect_raised # {}
  \/ hist.sink_failed

\* C30: a scan writes to the alert store at most once, after the last
\* partition and only a non-empty list; a scan in which a step raised before
\* or in that write leaves the store as it was, whatever the partitions
\* processed before had collected.
C30_SingleWriteAtEnd ==
  /\ [](hist.writes <= 1)
  /\ [][(store' # store \/ hist'.writes > hist.writes)
          => /\ scan_pc = "loop"
             /\ cur > NParts
             /\ all_alerts # <<>>
             /\ hist.writes = 0
             /\ store' = store \o all_alerts]_vars
  /\ [](ScanFailed => store = hist.store_before)

\* a partition raised after an earlier one had contributed alerts, and the
\* store was left alone
C30_Witness ==
  /\ scan_pc = "returned"
  /\ hist.detect_raised # {}
  /\ all_alerts # <<>>
  /\ hist.writes = 0
  /\ store = hist.store_before

====
